---- MODULE Spec2Model ----
(***************************************************************************)
(* A model of src/bot.py: the Users ledger (Google sheet + USER_CACHE),    *)
(* the JoinRequests sheet, the per-user session dictionary                *)
(* (context.user_data), the movie catalogue, the handlers start,           *)
(* check_subscription, handle_movie_code, handle_buttons,                  *)
(* handle_join_request and reload_movies, and the background task          *)
(* cleanup_join_requests.                                                  *)
(*                                                                         *)
(* Every handler is a coroutine.  The webhook endpoint awaits              *)
(* process_update once per HTTP request, so several handlers are in flight *)
(* at a time and interleave at their await points.  A handler is a record  *)
(* h[hd]; one action is the code a coroutine runs between two suspensions. *)
(* A sheet call has two steps: the store serves the request (`_read`,      *)
(* `_write`, `_append`), and later the coroutine resumes with the result   *)
(* (`_found`, `_return`).  A call that finds its answer without awaiting   *)
(* (get_user_data on a cache hit) continues in the same step.              *)
(*                                                                         *)
(* Numbers are kept as integers and the strings "True"/"False" of the      *)
(* subscribed column as strings.  username and first_name are not          *)
(* modelled.                                                               *)
(***************************************************************************)
EXTENDS Integers, Sequences, FiniteSets, TLC

\* ------------------------------------------------------------ bounds
\* Updates (handler invocations) delivered in one behaviour.
MaxEvents == 3
\* What the surroundings do to one behaviour: sheet, gateway and reply calls
\* that raise, and cache entries that the TTL drops.
MaxFaults == 1

\* ------------------------------------------------------------ constants
\* search_queries given to a new user by start.
StartCredits == 5
\* Credits added to the referrer.
ReferralBonus == 2

Users == {1, 2}
Handlers == {"h1", "h2"}
Codes == {42, 999}
\* The updates of a behaviour.  User 2 arrives: with no link, with user 1's
\* link, with its own.  User 1 is the one who searches; both confirm the
\* subscription.
StartInputs == {<<2, 0>>, <<2, 1>>, <<2, 2>>, <<1, 0>>}
CheckUsers == {1, 2}
SearchUsers == {1}
CodeInputs == {<<1, 42>>, <<1, 999>>}
ReferralUsers == {1}
\* Users 2 and 1 ask to join the first sponsor channel.
JoinInputs == {<<2, 101>>, <<1, 101>>}
\* Rows of the Movies sheet at startup: code 42 is in the catalogue.
MovieRows == <<[code |-> 42, title |-> "Inception"]>>
\* What the Movies sheet may hold when reload_movies reads it: the rows of
\* startup, a row more, or another title for code 42.  The program never
\* writes to this sheet.
MovieTables ==
    {MovieRows,
     <<[code |-> 42, title |-> "Inception"], [code |-> 999, title |-> "Tenet"]>>,
     <<[code |-> 42, title |-> "Interstellar"]>>}
\* ADMIN_IDS, and the users who send /reload_movies.
ADMIN_IDS == {1}
ReloadUsers == {1, 2}

\* A row of the Users sheet / an entry of USER_CACHE.  uid = 0 stands for
\* None (no row, no cache entry).
NoRow == [uid |-> 0, sq |-> 0, inv |-> 0, sub |-> "False"]
Row(u, sq, inv, sub) == [uid |-> u, sq |-> sq, inv |-> inv, sub |-> sub]

\* kwargs of update_user: <<v>> for a column that is passed, <<>> for one that
\* is not.
NoPatch == [sq |-> <<>>, inv |-> <<>>, sub |-> <<>>]

\* user_sheet, join_requests_sheet: the rows of the two sheets below the header.
\* USER_CACHE, MOVIE_DICT, CHANNELS: the globals of that name.
\* user_data[u]: context.user_data of user u.
\* h[hd]: the coroutine in handler slot hd.
\* out: the message the last step sent.
\* events, faults: how many updates were delivered and how many faults
\* happened, for the bounds.
\* paid[u]: by how much the invited_users column of the sheet has risen through
\* referral rewards for u since u's referral link was last stored.
\* cleanup: the background task cleanup_join_requests.
\* joined[p]: how many calls add_join_request(p) have returned without an
\* exception.
\* armed[u]: the presses of Search by u that put u in code mode, less the codes
\* of u that went past the awaiting_code test and got a record from
\* get_user_data (quota test, catalogue lookup).
VARIABLES user_sheet, join_requests_sheet, USER_CACHE, user_data,
          MOVIE_DICT, CHANNELS, h, out, events, faults, paid, cleanup, joined,
          armed

vars == <<user_sheet, join_requests_sheet, USER_CACHE, user_data,
          MOVIE_DICT, CHANNELS, h, out, events, faults, paid, cleanup, joined,
          armed>>

\* ------------------------------------------------------------ helpers
\* Index of the first row of sheet s whose user_id column is u, 0 if none.
FindIdx(s, u) ==
    IF \E i \in 1..Len(s) : s[i].uid = u
    THEN CHOOSE i \in 1..Len(s) : s[i].uid = u /\ \A j \in 1..(i-1) : s[j].uid # u
    ELSE 0

FindRow(s, u) == IF FindIdx(s, u) = 0 THEN NoRow ELSE s[FindIdx(s, u)]

\* updates = row; updates.update(kwargs)
Merge(row, patch) ==
    [uid |-> row.uid,
     sq  |-> IF patch.sq = <<>> THEN row.sq ELSE patch.sq[1],
     inv |-> IF patch.inv = <<>> THEN row.inv ELSE patch.inv[1],
     sub |-> IF patch.sub = <<>> THEN row.sub ELSE patch.sub[1]]

\* find_movie_by_code
find_movie_by_code(code) == IF code \in DOMAIN MOVIE_DICT THEN "found" ELSE "None"

\* MOVIE_DICT = {row[0]: row[1] for row in all_values}
LoadMovies(rows) ==
    [c \in {rows[i].code : i \in 1..Len(rows)} |->
        (CHOOSE t \in {rows[i].title : i \in {j \in 1..Len(rows) : rows[j].code = c
             /\ \A k \in (j+1)..Len(rows) : rows[k].code # c}} : TRUE)]

\* The session dictionary of a user nobody has talked to.
NoSession == [referrer_id |-> 0, subscription_confirmed |-> FALSE, awaiting_code |-> FALSE]

\* A handler slot with no coroutine in it.
Idle == [kind |-> "idle", uid |-> 0, pc |-> "idle", ret |-> "none", target |-> 0,
         patch |-> NoPatch, res |-> NoRow, idx |-> 0, ok |-> FALSE,
         sq |-> 0, code |-> 0, movie |-> "unset", ch |-> 0, unsub |-> FALSE,
         api_error |-> FALSE, ref |-> 0, arg |-> 0, after |-> FALSE]

\* The message a step sends to a user; NoOut when it sends none.
NoOut == [to |-> 0, text |-> "none"]

\* ------------------------------------------------------------ blocks
\* A block is the code a coroutine runs without suspending.  It maps a record
\* st = [c: USER_CACHE, d: user_data, r: the handler, o: out] to
\* the record at the next suspension.

\* The handler sends its last message (send_message_with_retry,
\* edit_message_with_retry) and returns; nothing of the handler runs after it.
Finish(st, text) ==
    [st EXCEPT !.r = Idle,
               !.o = IF text = "none" THEN NoOut ELSE [to |-> st.r.uid, text |-> text]]

\* await update_user(target, **patch): suspends in get_all_values.
CallUpdateUser(st, target, patch, ret) ==
    [st EXCEPT !.r.pc = "uu_read", !.r.target = target, !.r.patch = patch,
               !.r.ret = ret, !.r.res = NoRow, !.r.idx = 0, !.r.ok = FALSE]

\* await add_user(user_id, ..., 5, 0, "False"): suspends in append_row.
CallAddUser(st) ==
    [st EXCEPT !.r.pc = "au_append", !.r.target = st.r.uid, !.r.res = NoRow,
               !.r.ok = FALSE]

\* if search_queries <= 0
QuotaBelowZero(sq) == sq < 0
QuotaExhausted(sq) == sq <= 0

\* if movie: (the debit is issued on a hit only)
ShouldDebit(movie) == movie = "found"

\* start, after get_user_data returned ud.
StartAfterGet(st, ud) ==
    IF ud.uid = 0
    THEN CallAddUser(st)
    ELSE CallUpdateUser(st, st.r.uid, NoPatch, "start_end")

\* handle_movie_code, after get_user_data returned ud.
CodeAfterGet(st, ud) ==
    IF ud.uid = 0
    THEN Finish(st, "no_user_data")
    ELSE IF QuotaExhausted(ud.sq)
    THEN [st EXCEPT !.r.pc = "code_quota", !.r.sq = ud.sq, !.r.res = NoRow,
                    !.o = [to |-> st.r.uid, text |-> "no_searches_left"]]
    ELSE LET movie == find_movie_by_code(st.r.code)
             st1 == [st EXCEPT !.d[st.r.uid].awaiting_code = FALSE,
                               !.r.movie = movie, !.r.sq = ud.sq]
         IN IF ShouldDebit(movie)
            THEN CallUpdateUser(st1, st.r.uid, [NoPatch EXCEPT !.sq = <<ud.sq - 1>>], "code_end")
            ELSE Finish(st1, "not_found")

\* check_subscription, after the first get_user_data returned ud.
CheckAfterGet(st, ud) ==
    IF ud.uid # 0 /\ ud.sub = "True"
    THEN Finish([st EXCEPT !.d[st.r.uid].subscription_confirmed = TRUE], "none")
    ELSE [st EXCEPT !.r.pc = "gcm", !.r.ch = 1, !.r.unsub = FALSE,
                    !.r.api_error = FALSE, !.r.res = NoRow]

\* check_subscription, after get_user_data(referrer_id) returned ud.
ReferrerAfterGet(st, ud) ==
    IF ud.uid = 0
    THEN Finish(st, "success")
    ELSE CallUpdateUser(st, st.r.ref,
                        [NoPatch EXCEPT !.inv = <<ud.inv + 1>>, !.sq = <<ud.sq + ReferralBonus>>],
                        "check_ref_end")

AfterGet(st, ud) ==
    CASE st.r.ret = "start"     -> StartAfterGet(st, ud)
      [] st.r.ret = "check"     -> CheckAfterGet(st, ud)
      [] st.r.ret = "check_ref" -> ReferrerAfterGet(st, ud)
      [] st.r.ret = "code"      -> CodeAfterGet(st, ud)
      [] OTHER                  -> Finish(st, IF ud.uid = 0 THEN "no_user_data" ELSE "referral")

\* await get_user_data(target): a cache hit returns without suspending.
GetUserData(st, target, ret) ==
    IF st.c[target].uid # 0
    THEN AfterGet([st EXCEPT !.r.ret = ret, !.r.target = target], st.c[target])
    ELSE [st EXCEPT !.r.pc = "gud_read", !.r.target = target, !.r.ret = ret,
                    !.r.res = NoRow]

\* del context.user_data['referrer_id'] raises KeyError when the key is gone.
DelKeepsLink(st) == Finish(st, "success")
DelReferrer(st) ==
    IF st.d[st.r.uid].referrer_id = 0
    THEN [st EXCEPT !.r = [Idle EXCEPT !.kind = st.r.kind, !.uid = st.r.uid,
                                       !.pc = "raised"]]
    ELSE Finish([st EXCEPT !.d[st.r.uid].referrer_id = 0], "success")

\* check_subscription after update_user(user_id, subscribed="True"): the
\* referral reward.
ReferralReward(st) ==
    LET referrer_id == st.d[st.r.uid].referrer_id
    IN IF referrer_id # 0
       THEN GetUserData([st EXCEPT !.r.ref = referrer_id], referrer_id, "check_ref")
       ELSE Finish(st, "success")

\* The caller's code after update_user returned.  bot.send_message is called
\* with user_id=, which is no parameter of it: the call raises at once, the
\* except clause logs it, and the del follows without a suspension.
AfterUpdate(st) ==
    CASE st.r.ret = "check_sub"     -> ReferralReward(st)
      [] st.r.ret = "check_ref_end" -> DelReferrer(st)
      [] st.r.ret = "code_end"      -> Finish(st, "title")
      [] OTHER                      -> Finish(st, "welcome")

\* except Exception: unsubscribed_channels.append(button); api_error = True
GatewayErrorIgnored(st) == [st EXCEPT !.r.api_error = TRUE]
OnGatewayError(st) == [st EXCEPT !.r.unsub = TRUE, !.r.api_error = TRUE]

\* if not unsubscribed_channels: ... else: ...
Verdict(st) ==
    IF st.r.unsub
    THEN Finish(st, "promo")
    ELSE CallUpdateUser([st EXCEPT !.d[st.r.uid].subscription_confirmed = TRUE],
                        st.r.uid, [NoPatch EXCEPT !.sub = <<"True">>], "check_sub")

\* The end of the channel loop of check_subscription: after an exception the
\* warning is sent first.
EndLoop(st) ==
    IF st.r.api_error
    THEN [st EXCEPT !.r.pc = "check_warned",
                    !.o = [to |-> st.r.uid, text |-> "temporary_error"]]
    ELSE Verdict(st)

NextChannel(st) ==
    IF st.r.ch < Len(CHANNELS)
    THEN [st EXCEPT !.r.pc = "gcm", !.r.ch = st.r.ch + 1, !.r.res = NoRow, !.r.ok = FALSE]
    ELSE EndLoop(st)

\* ------------------------------------------------------------ state
St(hd) == [c |-> USER_CACHE, d |-> user_data, r |-> h[hd], o |-> NoOut]

Commit(hd, st) ==
    /\ USER_CACHE' = st.c
    /\ user_data' = st.d
    /\ out' = st.o
    /\ h' = [h EXCEPT ![hd] = st.r]

Config == <<MOVIE_DICT, CHANNELS>>
JoinVars == <<join_requests_sheet, cleanup, joined>>

\* cleanup_join_requests between two runs (asyncio.sleep(24 * 3600)).
\* rows: all_values; i: the row of the loop; del: rows_to_delete; seen: what
\* get_chat_member answered for the rows so far ("error" when it raised).
Asleep == [pc |-> "sleep", rows |-> <<>>, i |-> 0, del |-> <<>>, seen |-> <<>>]

\* What a behaviour starts from, per user.  The Users sheet outlives the
\* process, so a user is unknown (Absent), or known to the sheet alone
\* (Ledgered: the row as add_user wrote it, the process has just started), or
\* has confirmed the subscription in this process (Verified: row, cache entry
\* and session as check_subscription leaves them) and, with sq credits left,
\* has pressed the Search button (Searching).
Absent == [rows |-> <<>>, cache |-> NoRow, session |-> NoSession]
Ledgered(u, sq) ==
    [rows |-> <<Row(u, sq, 0, "False")>>, cache |-> NoRow, session |-> NoSession]
Verified(u, sq) ==
    [rows |-> <<Row(u, sq, 0, "True")>>, cache |-> Row(u, sq, 0, "True"),
     session |-> [NoSession EXCEPT !.subscription_confirmed = TRUE]]
Searching(u, sq) ==
    [Verified(u, sq) EXCEPT !.session.awaiting_code = TRUE]

InitUser(u) ==
    IF u = 1
    THEN {Ledgered(u, StartCredits), Searching(u, 0), Searching(u, 1)}
    ELSE {Absent, Ledgered(u, StartCredits)}

Init ==
    /\ \E a \in InitUser(1), b \in InitUser(2) :
         /\ user_sheet = a.rows \o b.rows
         /\ USER_CACHE = (1 :> a.cache) @@ (2 :> b.cache)
         /\ user_data = (1 :> a.session) @@ (2 :> b.session)
    /\ join_requests_sheet = <<>>
    /\ MOVIE_DICT = LoadMovies(MovieRows)
    /\ CHANNELS = <<101, 102>>
    /\ h = [hd \in Handlers |-> Idle]
    /\ out = NoOut
    /\ events = 0
    /\ faults = 0
    /\ paid = [u \in Users |-> 0]
    /\ cleanup = Asleep
    /\ joined = [p \in JoinInputs |-> 0]
    /\ armed = [u \in Users |-> IF user_data[u].awaiting_code THEN 1 ELSE 0]

\* ------------------------------------------------------------ handlers
\* A new update is dispatched to its handler; of the free slots the first
\* takes it.
Before(x, y) == x = "h1" /\ y = "h2"
Dispatch(hd) ==
    /\ h[hd].kind = "idle"
    /\ events < MaxEvents
    /\ \A x \in Handlers : h[x].kind = "idle" => ~ Before(x, hd)
New(kind, u) == [Idle EXCEPT !.kind = kind, !.uid = u]
At(hd, pc) == h[hd].pc = pc

\* start: lines 156-179 (up to the first suspension).
StartNoSelfCheck(st, ref) ==
    GetUserData(IF ref # 0 THEN [st EXCEPT !.d[st.r.uid].referrer_id = ref] ELSE st,
                st.r.uid, "start")
StartBlock(st, ref) ==
    LET u == st.r.uid
    IN IF ref = u
       THEN Finish(st, "self_invite")
       ELSE GetUserData(
              IF ref # 0 THEN [st EXCEPT !.d[u].referrer_id = ref] ELSE st,
              u, "start")

\* /start (ref = 0) or /start invite_<ref>.  A link that is stored starts a
\* new referral: paid[u] counts from 0 again and the handlers of u in flight
\* no longer run after a settled referral.
start(hd, u, ref) ==
    /\ Dispatch(hd)
    /\ LET st == StartBlock([St(hd) EXCEPT !.r = [New("start", u) EXCEPT !.arg = ref]], ref)
           stored == ref # 0 /\ st.d[u].referrer_id = ref
       IN /\ USER_CACHE' = st.c
          /\ user_data' = st.d
          /\ out' = st.o
          /\ h' = [x \in Handlers |->
                     IF x = hd THEN st.r
                     ELSE IF stored /\ h[x].uid = u
                          THEN [h[x] EXCEPT !.after = FALSE]
                          ELSE h[x]]
          /\ paid' = IF stored THEN [paid EXCEPT ![u] = 0] ELSE paid
    /\ events' = events + 1
    /\ UNCHANGED <<user_sheet, JoinVars, Config, faults, armed>>

\* check_subscription: lines 270-280, after query.answer().  `after` marks a
\* run that starts when the referral of u has been paid and no other run for
\* u is in flight.
check_subscription(hd, u) ==
    /\ Dispatch(hd)
    /\ LET alone == \A x \in Handlers : ~(h[x].kind = "check" /\ h[x].uid = u)
           r0 == [New("check", u) EXCEPT !.after = paid[u] > 0 /\ alone]
       IN Commit(hd, GetUserData([St(hd) EXCEPT !.r = r0], u, "check"))
    /\ events' = events + 1
    /\ UNCHANGED <<user_sheet, JoinVars, Config, faults, paid, armed>>

\* handle_movie_code: lines 518-532.  The handler's filter lets through
\* digit strings only, so the isdigit test passes.
handle_movie_code(hd, u, code) ==
    /\ Dispatch(hd)
    /\ LET st == [St(hd) EXCEPT !.r = [New("code", u) EXCEPT !.code = code]]
       IN Commit(hd, IF ~user_data[u].awaiting_code
                     THEN Finish(st, "press_search_first")
                     ELSE GetUserData(st, u, "code"))
    /\ armed' = IF user_data[u].awaiting_code /\ USER_CACHE[u].uid # 0
                THEN [armed EXCEPT ![u] = @ - 1] ELSE armed
    /\ events' = events + 1
    /\ UNCHANGED <<user_sheet, JoinVars, Config, faults, paid>>

\* handle_buttons, text == BUTTON_SEARCH: lines 569-575.
SearchNoGate(st) == Finish([st EXCEPT !.d[st.r.uid].awaiting_code = TRUE], "enter_code")
SearchBlock(st) ==
    IF ~st.d[st.r.uid].subscription_confirmed
    THEN Finish(st, "prompt_subscribe")
    ELSE Finish([st EXCEPT !.d[st.r.uid].awaiting_code = TRUE], "enter_code")

handle_buttons_search(hd, u) ==
    /\ Dispatch(hd)
    /\ Commit(hd, SearchBlock([St(hd) EXCEPT !.r = New("search", u)]))
    /\ armed' = IF out'.text = "enter_code" THEN [armed EXCEPT ![u] = @ + 1] ELSE armed
    /\ events' = events + 1
    /\ UNCHANGED <<user_sheet, JoinVars, Config, faults, paid>>

\* handle_buttons, text == BUTTON_REFERRAL: lines 576-598.
handle_buttons_referral(hd, u) ==
    /\ Dispatch(hd)
    /\ LET st == [St(hd) EXCEPT !.r = New("referral", u)]
       IN Commit(hd, IF ~user_data[u].subscription_confirmed
                     THEN Finish(st, "prompt_subscribe")
                     ELSE GetUserData(st, u, "referral"))
    /\ events' = events + 1
    /\ UNCHANGED <<user_sheet, JoinVars, Config, faults, paid, armed>>

\* ------------------------------------------------------------ sheet calls
\* A call may raise (APIError, network): at most MaxFaults times.
Outcomes == {TRUE} \cup (IF faults < MaxFaults THEN {FALSE} ELSE {})
Fault(ok) == faults' = IF ok THEN faults ELSE faults + 1

\* get_user_data, user_sheet.get_all_values() served: lines 379-395.  An
\* exception and a missing row both give None.
get_user_data_read(hd) ==
    /\ At(hd, "gud_read")
    /\ \E ok \in Outcomes :
         /\ out' = NoOut
         /\ h' = [h EXCEPT ![hd].pc = "gud_return",
                           ![hd].res = IF ok THEN FindRow(user_sheet, h[hd].target) ELSE NoRow]
         /\ Fault(ok)
    /\ UNCHANGED <<user_sheet, JoinVars, USER_CACHE, user_data, Config,
                   events, paid, armed>>

\* get_user_data resumes: USER_CACHE[user_id] = user_data; return.
get_user_data_return(hd) ==
    /\ At(hd, "gud_return")
    /\ LET ud == h[hd].res
           st == [St(hd) EXCEPT !.c = IF ud.uid # 0
                                      THEN [USER_CACHE EXCEPT ![h[hd].target] = ud]
                                      ELSE USER_CACHE,
                                !.r.res = NoRow]
       IN Commit(hd, AfterGet(st, ud))
    /\ armed' = IF h[hd].ret = "code" /\ h[hd].res.uid # 0
                THEN [armed EXCEPT ![h[hd].uid] = @ - 1] ELSE armed
    /\ UNCHANGED <<user_sheet, JoinVars, Config, events, faults, paid>>

\* update_user, user_sheet.get_all_values() served: lines 433-436.
update_user_read(hd) ==
    /\ At(hd, "uu_read")
    /\ \E ok \in Outcomes :
         /\ out' = NoOut
         /\ h' = [h EXCEPT ![hd].pc = "uu_found",
                           ![hd].ok = ok,
                           ![hd].idx = IF ok THEN FindIdx(user_sheet, h[hd].target) ELSE 0,
                           ![hd].res = IF ok THEN FindRow(user_sheet, h[hd].target) ELSE NoRow]
         /\ Fault(ok)
    /\ UNCHANGED <<user_sheet, JoinVars, USER_CACHE, user_data, Config,
                   events, paid, armed>>

\* update_user resumes: lines 437-445, or the return when the read raised or
\* found no row.
update_user_found(hd) ==
    /\ At(hd, "uu_found")
    /\ IF h[hd].ok /\ h[hd].idx # 0
       THEN Commit(hd, [St(hd) EXCEPT !.r.pc = "uu_write",
                                      !.r.res = Merge(h[hd].res, h[hd].patch),
                                      !.r.ok = FALSE])
       ELSE Commit(hd, AfterUpdate([St(hd) EXCEPT !.r.ok = FALSE]))
    /\ UNCHANGED <<user_sheet, JoinVars, Config, events, faults, paid, armed>>

\* update_user, user_sheet.update(f"A{idx}:F{idx}", ...) served: line 445.
update_user_write(hd) ==
    /\ At(hd, "uu_write")
    /\ \E ok \in Outcomes :
         /\ out' = NoOut
         /\ h' = [h EXCEPT ![hd].pc = "uu_return", ![hd].ok = ok]
         /\ user_sheet' = IF ok THEN [user_sheet EXCEPT ![h[hd].idx] = h[hd].res]
                          ELSE user_sheet
         /\ paid' = IF ok /\ h[hd].ret = "check_ref_end"
                    THEN [paid EXCEPT ![h[hd].uid] =
                            @ + h[hd].res.inv - user_sheet[h[hd].idx].inv]
                    ELSE paid
         /\ Fault(ok)
    /\ UNCHANGED <<JoinVars, USER_CACHE, user_data, Config, events, armed>>

\* USER_CACHE[user_id] = updates (line 453) is reached only when
\* user_sheet.update returned.
CacheAlways(ok) == TRUE
CacheWritten(ok) == ok

\* update_user resumes: USER_CACHE[user_id] = updates (line 453), then the
\* caller goes on.
update_user_return(hd) ==
    /\ At(hd, "uu_return")
    /\ LET st == [St(hd) EXCEPT !.c = IF CacheWritten(h[hd].ok)
                                      THEN [USER_CACHE EXCEPT ![h[hd].target] = h[hd].res]
                                      ELSE USER_CACHE]
       IN Commit(hd, AfterUpdate(st))
    /\ UNCHANGED <<user_sheet, JoinVars, Config, events, faults, paid, armed>>

\* add_user, user_sheet.append_row served: line 411.
add_user_append(hd) ==
    /\ At(hd, "au_append")
    /\ \E ok \in Outcomes :
         /\ out' = NoOut
         /\ h' = [h EXCEPT ![hd].pc = "au_return", ![hd].ok = ok]
         /\ user_sheet' = IF ok
                          THEN Append(user_sheet, Row(h[hd].target, StartCredits, 0, "False"))
                          ELSE user_sheet
         /\ Fault(ok)
    /\ UNCHANGED <<JoinVars, USER_CACHE, user_data, Config, events, paid, armed>>

\* add_user resumes: lines 412-419, then start sends the welcome text.
add_user_return(hd) ==
    /\ At(hd, "au_return")
    /\ LET st == [St(hd) EXCEPT !.c = IF h[hd].ok
                                      THEN [USER_CACHE EXCEPT ![h[hd].target] =
                                              Row(h[hd].target, StartCredits, 0, "False")]
                                      ELSE USER_CACHE]
       IN Commit(hd, Finish(st, "welcome"))
    /\ UNCHANGED <<user_sheet, JoinVars, Config, events, faults, paid, armed>>

\* ------------------------------------------------------------ channel loop
Statuses == {"member", "administrator", "creator", "left"}
IsMember(status) == status \in {"member", "administrator", "creator"}

\* bot.get_chat_member answers or raises: lines 285-296.
get_chat_member_return(hd) ==
    /\ At(hd, "gcm")
    /\ \/ \E status \in Statuses :
            /\ Commit(hd, IF IsMember(status)
                          THEN NextChannel(St(hd))
                          ELSE [St(hd) EXCEPT !.r.pc = "hsj_read"])
            /\ UNCHANGED faults
       \/ /\ faults < MaxFaults
          /\ faults' = faults + 1
          /\ Commit(hd, NextChannel(OnGatewayError(St(hd))))
    /\ UNCHANGED <<user_sheet, JoinVars, Config, events, paid, armed>>

\* has_sent_join_request, join_requests_sheet.get_all_values() served:
\* lines 255-266.  An exception gives False.
has_sent_join_request_read(hd) ==
    /\ At(hd, "hsj_read")
    /\ \E ok \in Outcomes :
         /\ out' = NoOut
         /\ h' = [h EXCEPT ![hd].pc = "hsj_return",
                           ![hd].ok = ok /\ \E i \in 1..Len(join_requests_sheet) :
                                join_requests_sheet[i] = <<h[hd].uid, CHANNELS[h[hd].ch]>>]
         /\ Fault(ok)
    /\ UNCHANGED <<user_sheet, JoinVars, USER_CACHE, user_data, Config,
                   events, paid, armed>>

\* has_sent_join_request returns to the loop: lines 288-292.
has_sent_join_request_return(hd) ==
    /\ At(hd, "hsj_return")
    /\ Commit(hd, IF h[hd].ok
                  THEN NextChannel(St(hd))
                  ELSE NextChannel([St(hd) EXCEPT !.r.unsub = TRUE]))
    /\ UNCHANGED <<user_sheet, JoinVars, Config, events, faults, paid, armed>>

\* The warning of line 299 is through: lines 301-367.
check_warned_return(hd) ==
    /\ At(hd, "check_warned")
    /\ Commit(hd, Verdict(St(hd)))
    /\ UNCHANGED <<user_sheet, JoinVars, Config, events, faults, paid, armed>>

\* ------------------------------------------------------------ join requests
\* A row of the JoinRequests sheet is <<user_id, channel_id>>.
HasRow(s, u, c) == \E i \in 1..Len(s) : s[i] = <<u, c>>

\* add_join_request: the test of lines 471-473.
NeverExists(s, u, c) == FALSE
AlreadyExists(s, u, c) == HasRow(s, u, c)

\* handle_join_request: lines 628-633.  CHANNEL_IDS holds the ids as strings,
\* so str(chat_id) in CHANNELS is true of a configured channel.
handle_join_request(hd, u, c) ==
    /\ Dispatch(hd)
    /\ Commit(hd, IF \E i \in 1..Len(CHANNELS) : CHANNELS[i] = c
                  THEN [St(hd) EXCEPT !.r = [New("join", u) EXCEPT !.arg = c,
                                                                   !.pc = "ajr_read"]]
                  ELSE Finish([St(hd) EXCEPT !.r = New("join", u)], "none"))
    /\ events' = events + 1
    /\ UNCHANGED <<user_sheet, JoinVars, Config, faults, paid, armed>>

\* add_join_request, join_requests_sheet.get_all_values() served and the loop
\* of lines 471-473 run on the rows it gave: nothing of the program is touched
\* in between.  An exception ends the call (lines 476-479).
add_join_request_read(hd) ==
    /\ At(hd, "ajr_read")
    /\ LET p == <<h[hd].uid, h[hd].arg>>
       IN \E ok \in Outcomes :
            /\ Fault(ok)
            /\ out' = NoOut
            /\ IF ok /\ ~AlreadyExists(join_requests_sheet, p[1], p[2])
               THEN /\ h' = [h EXCEPT ![hd].pc = "ajr_append"]
                    /\ joined' = joined
               ELSE /\ h' = [h EXCEPT ![hd] = Idle]
                    /\ joined' = IF ok THEN [joined EXCEPT ![p] = @ + 1] ELSE joined
    /\ UNCHANGED <<user_sheet, join_requests_sheet, cleanup, USER_CACHE, user_data,
                   Config, events, paid, armed>>

\* add_join_request, join_requests_sheet.append_row served: line 474; the call
\* and the handler return.
add_join_request_append(hd) ==
    /\ At(hd, "ajr_append")
    /\ LET p == <<h[hd].uid, h[hd].arg>>
       IN \E ok \in Outcomes :
            /\ Fault(ok)
            /\ out' = NoOut
            /\ h' = [h EXCEPT ![hd] = Idle]
            /\ join_requests_sheet' = IF ok THEN Append(join_requests_sheet, p)
                                      ELSE join_requests_sheet
            /\ joined' = IF ok THEN [joined EXCEPT ![p] = @ + 1] ELSE joined
    /\ UNCHANGED <<user_sheet, cleanup, USER_CACHE, user_data, Config, events, paid, armed>>

\* ------------------------------------------------------------ cleanup
\* rows_to_delete holds the indexes in ascending order; reversed() walks it
\* from the end, so cleanup.del is kept in descending order.
SelectAscending(del, i) == Append(del, i)
Select(del, i) == <<i>> \o del

AfterRow(c) ==
    IF c.i < Len(c.rows) THEN [c EXCEPT !.i = c.i + 1]
    ELSE IF c.del = <<>> THEN [c EXCEPT !.pc = "sleep"]
    ELSE [c EXCEPT !.pc = "delete"]

\* s without its row number idx; rows beyond the last are blank.
DeleteRow(s, idx) ==
    IF idx > Len(s) THEN s
    ELSE SubSeq(s, 1, idx - 1) \o SubSeq(s, idx + 1, Len(s))

\* cleanup_join_requests wakes up, join_requests_sheet.get_all_values()
\* served: lines 487-489.
cleanup_join_requests_read ==
    /\ cleanup.pc = "sleep"
    /\ events < MaxEvents
    /\ events' = events + 1
    /\ \E ok \in Outcomes :
         /\ Fault(ok)
         /\ cleanup' = IF ok /\ join_requests_sheet # <<>>
                       THEN [pc |-> "member", rows |-> join_requests_sheet,
                             i |-> 1, del |-> <<>>, seen |-> <<>>]
                       ELSE Asleep
    /\ out' = NoOut
    /\ UNCHANGED <<user_sheet, join_requests_sheet, joined, USER_CACHE, user_data,
                   Config, h, paid, armed>>

\* cleanup_join_requests, get_chat_member for row i answers or raises:
\* lines 494-499.
cleanup_get_chat_member ==
    /\ cleanup.pc = "member"
    /\ \/ \E status \in Statuses :
            /\ cleanup' = AfterRow(IF IsMember(status)
                                   THEN [cleanup EXCEPT !.del = Select(@, cleanup.i),
                                                        !.seen = Append(@, status)]
                                   ELSE [cleanup EXCEPT !.seen = Append(@, status)])
            /\ UNCHANGED faults
       \/ /\ faults < MaxFaults
          /\ faults' = faults + 1
          /\ cleanup' = AfterRow([cleanup EXCEPT !.seen = Append(@, "error")])
    /\ out' = NoOut
    /\ UNCHANGED <<user_sheet, join_requests_sheet, joined, USER_CACHE, user_data,
                   Config, h, events, paid, armed>>

\* cleanup_join_requests, join_requests_sheet.delete_rows(idx) served:
\* lines 500-502.  An exception ends the run (line 503).  Between two runs
\* the record keeps what the last run read, what the gateway told it and the
\* indexes it did not get to delete.
cleanup_delete_rows ==
    /\ cleanup.pc = "delete"
    /\ \E ok \in Outcomes :
         /\ Fault(ok)
         /\ join_requests_sheet' = IF ok THEN DeleteRow(join_requests_sheet, Head(cleanup.del))
                                   ELSE join_requests_sheet
         /\ cleanup' = IF ok /\ Len(cleanup.del) > 1
                       THEN [cleanup EXCEPT !.del = Tail(@)]
                       ELSE IF ok THEN [cleanup EXCEPT !.pc = "sleep", !.del = <<>>]
                       ELSE [cleanup EXCEPT !.pc = "sleep"]
    /\ out' = NoOut
    /\ UNCHANGED <<user_sheet, joined, USER_CACHE, user_data, Config, h, events, paid, armed>>

\* ------------------------------------------------------------ catalogue
\* if user_id not in ADMIN_IDS
AnyoneIsAdmin(u) == TRUE
IsAdmin(u) == u \in ADMIN_IDS

\* reload_movies: lines 656-662, up to movie_sheet.get_all_values().
reload_movies(hd, u) ==
    /\ Dispatch(hd)
    /\ Commit(hd, IF ~IsAdmin(u)
                  THEN Finish([St(hd) EXCEPT !.r = New("reload", u)], "admins_only")
                  ELSE [St(hd) EXCEPT !.r = [New("reload", u) EXCEPT !.pc = "rm_read"]])
    /\ events' = events + 1
    /\ UNCHANGED <<user_sheet, JoinVars, Config, faults, paid, armed>>

\* reload_movies, movie_sheet.get_all_values() answers with the rows the sheet
\* holds, or raises: lines 662-669.  The dictionary is built and assigned
\* without a suspension.
reload_movies_return(hd) ==
    /\ At(hd, "rm_read")
    /\ \/ \E rows \in MovieTables :
            /\ MOVIE_DICT' = LoadMovies(rows)
            /\ Commit(hd, Finish(St(hd), "reloaded"))
            /\ UNCHANGED faults
       \/ /\ faults < MaxFaults
          /\ faults' = faults + 1
          /\ MOVIE_DICT' = MOVIE_DICT
          /\ Commit(hd, Finish(St(hd), "reload_failed"))
    /\ UNCHANGED <<user_sheet, JoinVars, CHANNELS, events, paid, armed>>

\* ------------------------------------------------------------ endings
\* handle_movie_code, the reply of lines 540-544 is through: line 545.  When
\* the reply raises (a second RetryAfter) line 545 is not reached.
code_quota_return(hd) ==
    /\ At(hd, "code_quota")
    /\ \/ /\ Commit(hd, [St(hd) EXCEPT !.d[h[hd].uid].awaiting_code = FALSE, !.r = Idle])
          /\ UNCHANGED faults
       \/ /\ faults < MaxFaults
          /\ faults' = faults + 1
          /\ Commit(hd, [St(hd) EXCEPT !.r = [New(h[hd].kind, h[hd].uid) EXCEPT !.pc = "raised"]])
    /\ UNCHANGED <<user_sheet, JoinVars, Config, events, paid, armed>>

\* An exception left the handler: process_update calls error_handler.
error_handler(hd) ==
    /\ At(hd, "raised")
    /\ h' = [h EXCEPT ![hd] = Idle]
    /\ out' = NoOut
    /\ UNCHANGED <<user_sheet, JoinVars, USER_CACHE, user_data, Config,
                   events, faults, paid, armed>>

\* USER_CACHE = TTLCache(maxsize=1000, ttl=3600): an entry expires.
Expire(u) ==
    /\ USER_CACHE[u].uid # 0
    /\ faults < MaxFaults
    /\ faults' = faults + 1
    /\ USER_CACHE' = [USER_CACHE EXCEPT ![u] = NoRow]
    /\ out' = NoOut
    /\ UNCHANGED <<user_sheet, JoinVars, user_data, Config, h, events, paid, armed>>

Next ==
    \/ \E hd \in Handlers, i \in StartInputs : start(hd, i[1], i[2])
    \/ \E hd \in Handlers, u \in CheckUsers : check_subscription(hd, u)
    \/ \E hd \in Handlers, i \in CodeInputs : handle_movie_code(hd, i[1], i[2])
    \/ \E hd \in Handlers, u \in SearchUsers : handle_buttons_search(hd, u)
    \/ \E hd \in Handlers, u \in ReferralUsers : handle_buttons_referral(hd, u)
    \/ \E hd \in Handlers : get_user_data_read(hd)
    \/ \E hd \in Handlers : get_user_data_return(hd)
    \/ \E hd \in Handlers : update_user_read(hd)
    \/ \E hd \in Handlers : update_user_found(hd)
    \/ \E hd \in Handlers : update_user_write(hd)
    \/ \E hd \in Handlers : update_user_return(hd)
    \/ \E hd \in Handlers : add_user_append(hd)
    \/ \E hd \in Handlers : add_user_return(hd)
    \/ \E hd \in Handlers : get_chat_member_return(hd)
    \/ \E hd \in Handlers : has_sent_join_request_read(hd)
    \/ \E hd \in Handlers : has_sent_join_request_return(hd)
    \/ \E hd \in Handlers : check_warned_return(hd)
    \/ \E hd \in Handlers, p \in JoinInputs : handle_join_request(hd, p[1], p[2])
    \/ \E hd \in Handlers : add_join_request_read(hd)
    \/ \E hd \in Handlers : add_join_request_append(hd)
    \/ \E hd \in Handlers, u \in ReloadUsers : reload_movies(hd, u)
    \/ \E hd \in Handlers : reload_movies_return(hd)
    \/ cleanup_join_requests_read
    \/ cleanup_get_chat_member
    \/ cleanup_delete_rows
    \/ \E hd \in Handlers : code_quota_return(hd)
    \/ \E hd \in Handlers : error_handler(hd)
    \/ \E u \in Users : Expire(u)

Spec == Init /\ [][Next]_vars

\* ------------------------------------------------------------ properties
\* Handler hd takes the step (the mark `after` is no part of the coroutine).
Moved(hd) == [h'[hd] EXCEPT !.after = FALSE] # [h[hd] EXCEPT !.after = FALSE]
\* The rows of user u in sheet s, in order.
Rows(s, u) == SelectSeq(s, LAMBDA r : r.uid = u)
\* The user whose handler is in slot hd before or after the step.
Owner(hd) == IF h[hd].uid # 0 THEN h[hd].uid ELSE h'[hd].uid

\* C1: the search credits of every user, in USER_CACHE and in every row of
\* the Users sheet, are never negative, whatever handlers ran and however they
\* interleaved.
NonNegativeCredits ==
    /\ \A u \in Users : USER_CACHE[u].sq >= 0
    /\ \A i \in 1..Len(user_sheet) : user_sheet[i].sq >= 0

\* Two lookups of user 1 overlap on the last credit: both read 1, and the
\* debit of one of them is in the sheet.
OverlapOnLastCredit ==
    /\ \A hd \in Handlers : /\ h[hd].kind = "code" /\ h[hd].uid = 1
                            /\ h[hd].movie = "found" /\ h[hd].sq = 1
    /\ FindRow(user_sheet, 1).sq = 0

\* C2: no step of a lookup whose code is not in the catalogue, and that has
\* found no movie, changes the Users sheet, and the search credits that
\* USER_CACHE holds for the user stay as they were, or the entry becomes the
\* user's row of the sheet.
MissLeavesCredits ==
    [][\A hd \in Handlers :
         (/\ h[hd].kind = "code" /\ h[hd].movie # "found"
          /\ h[hd].code \notin DOMAIN MOVIE_DICT /\ Moved(hd))
            => /\ user_sheet' = user_sheet
               /\ USER_CACHE[h[hd].uid].uid # 0
                     => \/ USER_CACHE'[h[hd].uid].sq = USER_CACHE[h[hd].uid].sq
                        \/ USER_CACHE'[h[hd].uid] = FindRow(user_sheet, h[hd].uid)]_vars

\* C3: every title is paid for by a credit of its own: the lookup that sends
\* a title leaves the user, in the sheet and in USER_CACHE, with one credit
\* less than it read, and no two lookups of a user that found their movie hold
\* the same credit.
TitleDebitsOne ==
    [][/\ \A hd \in Handlers :
            (h[hd].kind = "code" /\ Moved(hd) /\ out'.text = "title")
               => /\ FindRow(user_sheet', h[hd].uid).sq = h[hd].sq - 1
                  /\ USER_CACHE'[h[hd].uid].sq = h[hd].sq - 1
       /\ \A a, b \in Handlers :
            (/\ a # b /\ h'[a].kind = "code" /\ h'[b].kind = "code"
             /\ h'[a].uid = h'[b].uid
             /\ h'[a].movie = "found" /\ h'[b].movie = "found")
               => h'[a].sq # h'[b].sq]_vars

\* C4: awaiting_code implies subscription_confirmed; a lookup gets past
\* the awaiting_code test, and a lookup reply or the prompt for a code is
\* sent, only for a user whose subscription_confirmed is set.
VerifiedBeforeLookup ==
    /\ \A u \in Users : user_data[u].awaiting_code => user_data[u].subscription_confirmed
    /\ \A hd \in Handlers :
         h[hd].kind = "code" => user_data[h[hd].uid].subscription_confirmed
    /\ out.text \in {"title", "not_found", "no_searches_left", "enter_code", "referral"}
         => user_data[out.to].subscription_confirmed

\* A code sent by a user who has not confirmed the subscription was turned
\* away.
RejectedBeforeVerification ==
    /\ out.text = "press_search_first"
    /\ ~user_data[out.to].subscription_confirmed

\* C5: no step of a lookup that is rejected for exhausted quota changes the
\* Users sheet or anything of the session but awaiting_code, and none sends a
\* title; the USER_CACHE entry that the user has stays as it was, or becomes
\* the user's row of the sheet.
QuotaRejectChangesNothing ==
    [][\A hd \in Handlers :
         ((h[hd].pc = "code_quota" \/ h'[hd].pc = "code_quota") /\ Moved(hd))
            => /\ user_sheet' = user_sheet
               /\ USER_CACHE[Owner(hd)].uid # 0
                     => \/ USER_CACHE'[Owner(hd)] = USER_CACHE[Owner(hd)]
                        \/ USER_CACHE'[Owner(hd)] = FindRow(user_sheet, Owner(hd))
               /\ user_data' = [user_data EXCEPT ![Owner(hd)].awaiting_code =
                                                    user_data'[Owner(hd)].awaiting_code]
               /\ out'.text # "title"]_vars

\* C6: the settlement of a referral raises the referrer's row of the sheet by
\* exactly one invited user and two credits and changes no other row, and the
\* link is given up only when that write was made.
ReferralCreditsReferrer ==
    [][\A hd \in Handlers :
         /\ (h[hd].pc = "uu_write" /\ h[hd].ret = "check_ref_end" /\ Moved(hd))
               => user_sheet' = [user_sheet EXCEPT
                                   ![h[hd].idx].inv = @ + 1,
                                   ![h[hd].idx].sq = @ + ReferralBonus]
         /\ (/\ h[hd].kind = "check" /\ Moved(hd)
             /\ user_data[h[hd].uid].referrer_id # 0
             /\ user_data'[h[hd].uid].referrer_id = 0)
               => h[hd].pc = "uu_return" /\ h[hd].ok]_vars

\* C7: a run of check_subscription that starts after the referral of its
\* user was paid, with no other run for that user in flight, changes the
\* ledger of no other user: neither USER_CACHE nor the sheet rows of the
\* referrer.
RepeatedSettlementIdle ==
    [][\A hd \in Handlers :
         ((h[hd].after \/ h'[hd].after) /\ Moved(hd))
            => \A v \in Users \ {Owner(hd)} :
                  /\ USER_CACHE'[v] = USER_CACHE[v]
                  /\ Rows(user_sheet', v) = Rows(user_sheet, v)]_vars

\* A run after the paid referral has checked the channels again and written
\* subscribed; the referral reward is what it does next.
SecondRunReachesReward ==
    \E hd \in Handlers :
      /\ h[hd].after /\ h[hd].pc = "uu_return" /\ h[hd].ret = "check_sub"
      /\ paid[h[hd].uid] = 1

\* C8: one referral raises the referrer's invited_users by at most one, and
\* no run of check_subscription ends in an exception.
OverlapCreditsOnce ==
    /\ \A u \in Users : paid[u] <= 1
    /\ \A hd \in Handlers : ~(h[hd].kind = "check" /\ h[hd].pc = "raised")

\* C9: no session ever holds the user's own id as referrer_id, no /start with
\* the sender's own id gets past the test, and the step that answers it
\* changes nothing of the ledger, the sessions or the handlers.
SelfReferralRejected ==
    [][/\ \A u \in Users : user_data'[u].referrer_id # u
       /\ \A hd \in Handlers : h'[hd].kind = "start" => h'[hd].arg # h'[hd].uid
       /\ out'.text = "self_invite"
            => /\ user_data' = user_data /\ USER_CACHE' = USER_CACHE
               /\ user_sheet' = user_sheet /\ h' = h /\ paid' = paid]_vars

\* A /start with the sender's own id was answered; the sender has no link.
SelfInviteAnswered ==
    /\ out.text = "self_invite"
    /\ user_data[out.to].referrer_id = 0

\* C10: a /start of a user who has a row in the Users sheet leaves the
\* referrer_id of the session as it was.
FirstContactOnly ==
    [][\A hd \in Handlers :
         (h[hd].kind = "idle" /\ h'[hd].kind = "start"
            /\ FindIdx(user_sheet, h'[hd].uid) # 0)
            => user_data'[h'[hd].uid].referrer_id
                 = user_data[h'[hd].uid].referrer_id]_vars

\* How many rows of sheet s are <<u, c>>.
Count(s, u, c) == Cardinality({i \in 1..Len(s) : s[i] = <<u, c>>})

\* C11: a call of add_join_request(u, c) that reads the JoinRequests sheet
\* when the sheet holds a row (u, c) appends nothing: the call ends there and
\* the sheet is as it was.
RepeatedJoinRequestIdle ==
    [][\A hd \in Handlers :
         (/\ h[hd].pc = "ajr_read" /\ Moved(hd)
          /\ HasRow(join_requests_sheet, h[hd].uid, h[hd].arg))
            => /\ h'[hd] = Idle
               /\ join_requests_sheet' = join_requests_sheet]_vars

\* Two calls for the same pair have returned, and the sheet holds one row.
RecordedTwice ==
    \E p \in JoinInputs :
      /\ joined[p] = 2
      /\ Count(join_requests_sheet, p[1], p[2]) = 1
      /\ \A hd \in Handlers : h[hd].kind = "idle"

\* C12: the JoinRequests sheet never holds two rows with the same user and
\* channel.
JoinRequestsAreSet ==
    \A i, j \in 1..Len(join_requests_sheet) :
       i # j => join_requests_sheet[i] # join_requests_sheet[j]

\* C13: a run of check_subscription in which get_chat_member raised sets
\* neither subscription_confirmed nor anything of the ledger and pays no
\* referral: from the exception on, its steps leave the sessions, the Users
\* sheet, USER_CACHE and the referral count as they are, call no update_user,
\* and send the warning and the prompt only.
FailClosed ==
    [][\A hd \in Handlers :
         ((h[hd].api_error \/ h'[hd].api_error) /\ Moved(hd))
            => /\ user_data' = user_data
               /\ user_sheet' = user_sheet
               /\ USER_CACHE' = USER_CACHE
               /\ paid' = paid
               /\ h'[hd].pc \in {"gcm", "hsj_read", "hsj_return", "check_warned", "idle"}
               /\ out'.text \in {"none", "temporary_error", "promo"}]_vars

\* A run has examined every channel, one query raised, and the warning is out;
\* the user is not confirmed, in the session or in the sheet.
WarnedNotVerified ==
    \E hd \in Handlers :
      /\ h[hd].pc = "check_warned" /\ h[hd].ch = Len(CHANNELS)
      /\ out = [to |-> h[hd].uid, text |-> "temporary_error"]
      /\ ~user_data[h[hd].uid].subscription_confirmed
      /\ FindRow(user_sheet, h[hd].uid).sub = "False"
      /\ FindRow(user_sheet, h[hd].uid).uid # 0

\* C14: a channel whose reported status is no membership counts as satisfied
\* exactly when the JoinRequests sheet holds a row for the user and the
\* channel; a run confirms the subscription only after the last configured
\* channel and only when no channel was found unsatisfied, and it sends the
\* prompt again only when one was.
VerifiedIffAllSatisfied ==
    [][\A hd \in Handlers :
         /\ (h[hd].pc = "hsj_read" /\ Moved(hd))
               => h'[hd].ok = HasRow(join_requests_sheet, h[hd].uid, CHANNELS[h[hd].ch])
         /\ (/\ h[hd].pc \in {"gcm", "hsj_return"} /\ Moved(hd)
             /\ h'[hd].pc = "uu_read" /\ h'[hd].ret = "check_sub")
               => /\ h[hd].ch = Len(CHANNELS)
                  /\ ~h[hd].unsub
                  /\ h[hd].pc = "hsj_return" => h[hd].ok
         /\ (h[hd].pc = "hsj_return" /\ Moved(hd) /\ out'.text = "promo")
               => h[hd].unsub \/ ~h[hd].ok]_vars

\* C15: no step sets subscription_confirmed back to false, and a run of
\* check_subscription that consults the ledger when the user's row of the
\* sheet says subscribed = "True", with no other handler of that user in
\* flight, gets that record and does not enter the channel loop.
VerifiedIsTerminal ==
    [][/\ \A u \in Users :
            user_data[u].subscription_confirmed => user_data'[u].subscription_confirmed
       /\ \A hd \in Handlers :
            /\ (/\ h[hd].kind = "idle" /\ h'[hd].kind = "check"
                /\ \A x \in Handlers : h[x].uid # h'[hd].uid
                /\ FindRow(user_sheet, h'[hd].uid).sub = "True")
                  => h'[hd].pc # "gcm"
            /\ (/\ h[hd].pc = "gud_read" /\ h[hd].ret = "check" /\ Moved(hd)
                /\ \A x \in Handlers \ {hd} : h[x].uid # h[hd].uid
                /\ FindRow(user_sheet, h[hd].target).sub = "True")
                  => h'[hd].res.sub = "True"]_vars

\* C16: no step lowers the invited_users of a user, in a row of the Users
\* sheet or in the entry that USER_CACHE holds.
InvitedNeverDecreases ==
    [][/\ \A i \in 1..Len(user_sheet) : user_sheet'[i].inv >= user_sheet[i].inv
       /\ \A u \in Users :
            (USER_CACHE[u].uid # 0 /\ USER_CACHE'[u].uid # 0)
               => USER_CACHE'[u].inv >= USER_CACHE[u].inv]_vars

\* C17: an adjustment is made to the record as it is when the adjustment is
\* written, so that none made in between is lost: the write of a lookup debit
\* leaves the invited_users of the row, and the write of a referral credit
\* raises the credits of the row by two and its invited_users by one.
AdjustmentsAtomic ==
    [][\A hd \in Handlers :
         (h[hd].pc = "uu_write" /\ Moved(hd) /\ h'[hd].ok)
            => LET old == user_sheet[h[hd].idx]
                   new == user_sheet'[h[hd].idx]
               IN /\ h[hd].ret = "code_end" => new.inv = old.inv
                  /\ h[hd].ret = "check_ref_end"
                       => new.sq = old.sq + ReferralBonus /\ new.inv = old.inv + 1]_vars

\* C18: a reload of a user's cache entry from the Users sheet stores the
\* record as the sheet holds it, every mutation made so far included: when
\* get_user_data fills USER_CACHE and no update_user for that user is under
\* way, the entry is the user's row of the sheet.
ReloadKeepsMutations ==
    [][\A hd \in Handlers :
         (/\ h[hd].pc = "gud_return" /\ Moved(hd) /\ h[hd].res.uid # 0
          /\ \A x \in Handlers \ {hd} :
                ~(h[x].target = h[hd].target
                  /\ h[x].pc \in {"uu_read", "uu_found", "uu_write", "uu_return"}))
            => USER_CACHE'[h[hd].target] = FindRow(user_sheet, h[hd].target)]_vars

\* C19: the Users sheet never holds two rows with the same user_id.
UniqueUserRows ==
    \A i, j \in 1..Len(user_sheet) :
       i # j => user_sheet[i].uid # user_sheet[j].uid

\* C20: when the read or the write of the sheet inside update_user raises
\* during a lookup debit, no step of that call changes the Users sheet or
\* USER_CACHE: the credits are what they were, in the row and in the entry.
FailedDebitUntouched ==
    [][\A hd \in Handlers :
         (/\ h[hd].ret = "code_end" /\ Moved(hd)
          /\ \/ h[hd].pc \in {"uu_read", "uu_write"} /\ ~h'[hd].ok
             \/ h[hd].pc \in {"uu_found", "uu_return"} /\ ~h[hd].ok)
            => /\ user_sheet' = user_sheet
               /\ USER_CACHE' = USER_CACHE]_vars

\* The write of a debit has raised and update_user is about to return: row
\* and cache entry agree on the credits the lookup read.
DebitWriteFailed ==
    \E hd \in Handlers :
      /\ h[hd].ret = "code_end" /\ h[hd].pc = "uu_return" /\ ~h[hd].ok
      /\ FindRow(user_sheet, h[hd].uid).sq = h[hd].sq
      /\ USER_CACHE[h[hd].uid].sq = h[hd].sq

\* C21: at the step of check_subscription where update_user for the referrer
\* has written the credit and the notification to the referrer raises, the
\* Users sheet keeps the credit, the referrer's cache entry holds it, no
\* message goes to the referrer, the link is deleted from the session, and the
\* run ends with the success message.
NotificationFailureSettles ==
    [][\A hd \in Handlers :
         (/\ h[hd].pc = "uu_return" /\ h[hd].ret = "check_ref_end"
          /\ h[hd].ok /\ Moved(hd))
            => /\ user_sheet' = user_sheet
               /\ USER_CACHE'[h[hd].target] = h[hd].res
               /\ user_data'[h[hd].uid].referrer_id = 0
               /\ h'[hd] = Idle
               /\ out' = [to |-> h[hd].uid, text |-> "success"]]_vars

\* C22: a call of get_user_data or update_user whose read of the Users sheet
\* fails once, the store answering afterwards, still gives the call's normal
\* result: get_user_data returns the user's row of the sheet, and update_user
\* finds the row it is to rewrite.
TransientFailureRetried ==
    [][\A hd \in Handlers :
         /\ (h[hd].pc = "gud_read" /\ Moved(hd))
               => h'[hd].res = FindRow(user_sheet, h[hd].target)
         /\ (h[hd].pc = "uu_read" /\ Moved(hd))
               => h'[hd].idx = FindIdx(user_sheet, h[hd].target)]_vars

\* C23: no step removes a code from MOVIE_DICT or gives a code another title.
RefreshOnlyAdds ==
    [][\A c \in DOMAIN MOVIE_DICT :
         c \in DOMAIN MOVIE_DICT' /\ MOVIE_DICT'[c] = MOVIE_DICT[c]]_vars

\* The handlers that read or write the session or the ledger record of the
\* user who sent the update.
SessionKinds == {"start", "check", "code", "search", "referral"}

\* C24: a handler of a user's update runs its code, up to its first
\* suspension and beyond, only when no handler of an earlier update of that
\* user is unfinished: two such handlers of one user are never in flight
\* together.
PerUserArrivalOrder ==
    \A a, b \in Handlers :
       (a # b /\ h[a].kind \in SessionKinds /\ h[b].kind \in SessionKinds)
          => h[a].uid # h[b].uid

\* C25: a step of a /start handler of a user who has a row in the Users sheet
\* appends no row and changes no credits, invited count or subscribed flag of
\* the sheet, and leaves the user's cache entry as it was or as the user's row
\* of the sheet is.
StartKeepsLedger ==
    [][\A hd \in Handlers :
         (/\ (h[hd].kind = "start" \/ h'[hd].kind = "start") /\ Moved(hd)
          /\ FindIdx(user_sheet, Owner(hd)) # 0)
            => /\ user_sheet' = user_sheet
               /\ USER_CACHE'[Owner(hd)] \in {USER_CACHE[Owner(hd)],
                                             FindRow(user_sheet, Owner(hd))}]_vars

\* C26: when no handler is in flight, the entry of USER_CACHE of every user
\* who has one equals the first row of the Users sheet with that user's id.
QuiescentCacheIsFirstRow ==
    (\A hd \in Handlers : h[hd].kind = "idle")
       => \A u \in Users :
             USER_CACHE[u].uid # 0 => USER_CACHE[u] = FindRow(user_sheet, u)

\* C27: handle_movie_code looks a code up in the catalogue only when a press
\* of Search by that user is still unused: every earlier code that reached the
\* quota test or the lookup has used one up.
OnePressOneLookup ==
    [][\A hd \in Handlers :
         (/\ h[hd].pc \in {"idle", "gud_return"} /\ Moved(hd)
          /\ \/ h'[hd].pc = "uu_read" /\ h'[hd].ret = "code_end"
             \/ h[hd].ret = "code" /\ out'.text = "not_found"
             \/ h[hd].pc = "idle" /\ h' = h /\ out'.text = "not_found")
            => armed[Owner(hd)] > 0]_vars

\* C28: the JoinRequests sheet changes only by an append of add_join_request
\* or by a deletion of cleanup_join_requests, and every delete_rows call of
\* cleanup_join_requests that is served removes exactly one row: the row the
\* run read at that index, still at that index, for which get_chat_member
\* answered member, administrator or creator in this run.
CleanupDeletesSelected ==
    [][/\ (cleanup.pc = "delete" /\ cleanup' # cleanup /\ faults' = faults)
            => LET idx == Head(cleanup.del)
               IN /\ idx <= Len(cleanup.rows) /\ idx <= Len(join_requests_sheet)
                  /\ join_requests_sheet[idx] = cleanup.rows[idx]
                  /\ IsMember(cleanup.seen[idx])
                  /\ join_requests_sheet' = DeleteRow(join_requests_sheet, idx)
                  /\ Len(join_requests_sheet') = Len(join_requests_sheet) - 1
       /\ join_requests_sheet' # join_requests_sheet
            => \/ cleanup.pc = "delete" /\ cleanup' # cleanup /\ faults' = faults
               \/ \E p \in JoinInputs :
                    join_requests_sheet' = Append(join_requests_sheet, p)]_vars

\* A run of cleanup_join_requests has ended: it read two rows, the gateway
\* reported the user of the first a member and the user of the second not (or
\* the query raised), and the sheet holds the second row only.
CleanupKeptNonMember ==
    /\ cleanup.pc = "sleep" /\ Len(cleanup.rows) = 2 /\ cleanup.del = <<>>
    /\ IsMember(cleanup.seen[1]) /\ ~IsMember(cleanup.seen[2])
    /\ join_requests_sheet = <<cleanup.rows[2]>>

\* C29: MOVIE_DICT changes only in the step in which reload_movies, called by
\* a user of ADMIN_IDS, resumes from a read of the Movies sheet that did not
\* raise, and then it is the whole dictionary of the rows that were read; a
\* reload refused to a non-admin and a reload whose read raised leave
\* MOVIE_DICT as it was.
CatalogueChangesByAdminReload ==
    [][/\ MOVIE_DICT' # MOVIE_DICT
            => /\ \E hd \in Handlers :
                    /\ h[hd].kind = "reload" /\ h[hd].pc = "rm_read"
                    /\ h[hd].uid \in ADMIN_IDS
                    /\ h'[hd] = Idle
                    /\ out' = [to |-> h[hd].uid, text |-> "reloaded"]
               /\ faults' = faults
               /\ \E rows \in MovieTables : MOVIE_DICT' = LoadMovies(rows)
       /\ out'.text \in {"admins_only", "reload_failed"}
            => MOVIE_DICT' = MOVIE_DICT
       /\ \A hd \in Handlers :
            (h[hd].pc = "rm_read" /\ Moved(hd) /\ faults' # faults)
               => MOVIE_DICT' = MOVIE_DICT /\ out'.text = "reload_failed"]_vars

\* An admin's reload has replaced the catalogue of startup, and the reload a
\* non-admin asked for after it has been refused: the reloaded catalogue is in
\* place.
NonAdminReloadRefused ==
    /\ out = [to |-> 2, text |-> "admins_only"]
    /\ MOVIE_DICT = LoadMovies(<<[code |-> 42, title |-> "Interstellar"]>>)

====
